---------------------------- MODULE Spec2Model ----------------------------
(***************************************************************************)
(* A model of vlmeval/vlm/llava_xtuner.py: the LLaVA_XTuner adapter.       *)
(*                                                                         *)
(* Python values are modelled as follows.                                  *)
(*   - A str is the sequence of its Unicode code points, so that           *)
(*     concatenation, splitting and script membership are computed on      *)
(*     characters.                                                         *)
(*   - None / an absent optional is <<>>, a present value x is <<x>>.      *)
(*   - A row (`line`, a pandas Series) is the ordered sequence of its      *)
(*     <<column, value>> pairs; a value is a record [t, v] with            *)
(*     t in {"str", "int", "nan", "list"}.                                 *)
(*   - A path below the image cache is <<"images", root, name>>.           *)
(***************************************************************************)
EXTENDS Integers, Sequences, FiniteSets, TLC

VARIABLES
  obj,     \* the LLaVA_XTuner instance (self), or the constructor's outcome
  fs,      \* the on-disk image cache: [dirs, files]
  call,    \* the operation last requested and its arguments
  ret,     \* what that operation returned or raised
  procs,   \* concurrent build_prompt callers: per process its position
  hist     \* history of the cache, kept for the statements about races

vars == <<obj, fs, call, ret, procs, hist>>

----------------------------------------------------------------------------
(* String literals of the source and of the sample inputs.                 *)

\* "Answer with the option's letter from the given choices directly."
EN_INSTRUCTION ==
  <<
    65, 110, 115, 119, 101, 114, 32, 119, 105, 116, 104, 32, 116, 104,
    101, 32, 111, 112, 116, 105, 111, 110, 39, 115, 32, 108, 101, 116,
    116, 101, 114, 32, 102, 114, 111, 109, 32, 116, 104, 101, 32, 103,
    105, 118, 101, 110, 32, 99, 104, 111, 105, 99, 101, 115, 32, 100,
    105, 114, 101, 99, 116, 108, 121, 46
  >>

\* '\u8bf7\u76f4\u63a5\u56de\u7b54\u9009\u9879\u5b57\u6bcd\u3002'
CN_INSTRUCTION ==
  <<
    35831, 30452, 25509, 22238, 31572, 36873, 39033, 23383, 27597, 12290
  >>

\* 'There are several options:\n'
OPTIONS_HEADER ==
  <<
    84, 104, 101, 114, 101, 32, 97, 114, 101, 32, 115, 101, 118, 101,
    114, 97, 108, 32, 111, 112, 116, 105, 111, 110, 115, 58, 10
  >>

\* '<image>'
DEFAULT_IMAGE_TOKEN ==
  <<
    60, 105, 109, 97, 103, 101, 62
  >>

\* '.jpg'
JPG_EXT ==
  <<
    46, 106, 112, 103
  >>

\* 'What color is the sky?'
Q_SKY ==
  <<
    87, 104, 97, 116, 32, 99, 111, 108, 111, 114, 32, 105, 115, 32, 116,
    104, 101, 32, 115, 107, 121, 63
  >>

\* '\u5929\u7a7a\u662f\u4ec0\u4e48\u989c\u8272?'
Q_CN ==
  <<
    22825, 31354, 26159, 20160, 20040, 39068, 33394, 63
  >>

\* 'Look up.'
HINT_EN ==
  <<
    76, 111, 111, 107, 32, 117, 112, 46
  >>

\* 'Blue'
TXT_BLUE ==
  <<
    66, 108, 117, 101
  >>

\* 'Green'
TXT_GREEN ==
  <<
    71, 114, 101, 101, 110
  >>

\* '\u7ea2'
TXT_RED_CN ==
  <<
    32418
  >>

\* 'Grey'
TXT_GREY ==
  <<
    71, 114, 101, 121
  >>

\* "What color is the sky? There are several options:\nA. Blue\nB. Green\n\nAnswer with the option's letter from the given choices directly."
SKY_EXAMPLE_TEXT ==
  <<
    87, 104, 97, 116, 32, 99, 111, 108, 111, 114, 32, 105, 115, 32, 116,
    104, 101, 32, 115, 107, 121, 63, 32, 84, 104, 101, 114, 101, 32, 97,
    114, 101, 32, 115, 101, 118, 101, 114, 97, 108, 32, 111, 112, 116,
    105, 111, 110, 115, 58, 10, 65, 46, 32, 66, 108, 117, 101, 10, 66,
    46, 32, 71, 114, 101, 101, 110, 10, 10, 65, 110, 115, 119, 101, 114,
    32, 119, 105, 116, 104, 32, 116, 104, 101, 32, 111, 112, 116, 105,
    111, 110, 39, 115, 32, 108, 101, 116, 116, 101, 114, 32, 102, 114,
    111, 109, 32, 116, 104, 101, 32, 103, 105, 118, 101, 110, 32, 99,
    104, 111, 105, 99, 101, 115, 32, 100, 105, 114, 101, 99, 116, 108,
    121, 46
  >>

\* '<|User|>:'
TPL_INTERNLM_PRE ==
  <<
    60, 124, 85, 115, 101, 114, 124, 62, 58
  >>

\* '<eoh>\n<|Bot|>:'
TPL_INTERNLM_POST ==
  <<
    60, 101, 111, 104, 62, 10, 60, 124, 66, 111, 116, 124, 62, 58
  >>

\* 'USER: '
TPL_VICUNA_PRE ==
  <<
    85, 83, 69, 82, 58, 32
  >>

\* ' ASSISTANT:'
TPL_VICUNA_POST ==
  <<
    32, 65, 83, 83, 73, 83, 84, 65, 78, 84, 58
  >>

\* '[INST] '
TPL_LLAMA2_PRE ==
  <<
    91, 73, 78, 83, 84, 93, 32
  >>

\* ' [/INST]'
TPL_LLAMA2_POST ==
  <<
    32, 91, 47, 73, 78, 83, 84, 93
  >>

\* 'a.png'
NAME_A ==
  <<
    97, 46, 112, 110, 103
  >>

\* '<im'
PIECE_IM ==
  <<
    60, 105, 109
  >>

\* 'age>'
PIECE_AGE ==
  <<
    97, 103, 101, 62
  >>

\* 'Hi'
PIECE_WORD ==
  <<
    72, 105
  >>

----------------------------------------------------------------------------
(* Python values.                                                          *)

None == <<>>
Some(x) == <<x>>

PyStr(s) == [t |-> "str", v |-> s]
\* a str holding base64 text, kept symbolic: its name in B64Images, or junk
B64(p) == [t |-> "b64", v |-> p]
Path(p) == [t |-> "path", v |-> p]
PyInt(n) == [t |-> "int", v |-> n]
List(xs) == [t |-> "list", v |-> xs]
\* float('nan') / None in a pandas cell: what pd.isna answers True for
NaN == [t |-> "nan", v |-> <<>>]
pd_isna(x) == x.t = "nan"

\* `c in line` and `line[c]` on a row
Has(line, c) == \E i \in 1..Len(line) : line[i][1] = c
Get(line, c) == line[CHOOSE i \in 1..Len(line) : line[i][1] = c][2]

\* str(n) for a non-negative int
RECURSIVE DecStr(_)
DecStr(n) == IF n < 10 THEN <<48 + n>> ELSE DecStr(n \div 10) \o <<48 + (n % 10)>>

\* what an f-string field `{x}` renders
Format(x) == IF x.t = "int" THEN DecStr(x.v) ELSE x.v

RECURSIVE Flatten(_)
Flatten(ss) == IF ss = <<>> THEN <<>> ELSE Head(ss) \o Flatten(Tail(ss))

----------------------------------------------------------------------------
(* Collaborators from vlmeval.smp and vlmeval.utils.                       *)

\* dataset name -> directory below images/
img_root_map ==
  [MMBench_DEV_EN |-> "MMBench", MMBench_TEST_EN |-> "MMBench", MME |-> "MME"]

\* img_root_map[dataset] succeeds: the key is a dataset name of the map
InRootMap(dataset) == dataset # None /\ dataset[1] \in DOMAIN img_root_map

DATASET_TYPE(name) ==
  IF name \in {"MMBench_DEV_EN", "MMBench_TEST_EN"} THEN "multi-choice"
  ELSE IF name = "MME" THEN "Y/N"
  ELSE "QA"

\* True iff the string holds a character of the CJK ideograph block
cn_string(s) == \E i \in 1..Len(s) : s[i] >= 19968 /\ s[i] <= 40959

\* base64 payloads that decode to an image, and the image each decodes to
B64Images == ("Y2F0" :> "cat") @@ ("ZG9n" :> "dog")

Exists(cache, path) == path \in DOMAIN cache.files

\* the file exists and opens as an image of positive size
read_ok(cache, path) ==
  Exists(cache, path) /\ cache.files[path] \notin {"empty", "corrupt"}

WriteFile(cache, path, content) ==
  [cache EXCEPT !.files = (path :> content) @@ cache.files]

\* decode the payload, then save the image at path; raises on a payload that
\* is no image, before anything is opened for writing
decode_base64_to_image_file(cache, img, path) ==
  IF img.t = "b64" /\ img.v \in DOMAIN B64Images
  THEN [ok |-> TRUE, error |-> "", fs |-> WriteFile(cache, path, B64Images[img.v]),
        writes |-> <<path>>]
  ELSE [ok |-> FALSE, error |-> "DecodeError", fs |-> cache, writes |-> <<>>]

\* os.makedirs(d, exist_ok=True): d and its parents
makedirs(cache, d) ==
  [cache EXCEPT !.dirs = @ \cup {SubSeq(d, 1, k) : k \in 1..Len(d)}]

\* osp.join(dir, name)
join(d, name) == Append(d, name)

----------------------------------------------------------------------------
(* build_prompt: image materialization.                                    *)

\* needs_write answering yes whatever is on disk
needs_write_always(cache, path) == TRUE

\* the guard of lines 134 and 139: `not read_ok(path)`
needs_write(cache, path) == ~read_ok(cache, path)

\* materialize without the read_ok guard: decodes and writes every time
materialize_always(cache, img, path) ==
  decode_base64_to_image_file(cache, img, path)

\* `if not read_ok(path): decode_base64_to_image_file(img, path)`
materialize(cache, img, path) ==
  IF needs_write(cache, path)
  THEN decode_base64_to_image_file(cache, img, path)
  ELSE [ok |-> TRUE, error |-> "", fs |-> cache, writes |-> <<>>]

\* the loop over zip(line['image'], line['image_path']); items are
\* <<img, im_name>> pairs; stops at the first image that raises
RECURSIVE materialize_all(_, _, _)
materialize_all(cache, img_root, items) ==
  IF items = <<>>
  THEN [ok |-> TRUE, error |-> "", fs |-> cache, tgt_path |-> <<>>, writes |-> <<>>]
  ELSE LET path == join(img_root, Format(items[1][2]))
           one  == materialize(cache, items[1][1], path)
       IN IF ~one.ok
          THEN [ok |-> FALSE, error |-> one.error, fs |-> one.fs,
                tgt_path |-> <<>>, writes |-> <<>>]
          ELSE LET rest == materialize_all(one.fs, img_root, Tail(items))
               IN [rest EXCEPT !.tgt_path = <<path>> \o @,
                               !.writes = one.writes \o @]

Min(a, b) == IF a < b THEN a ELSE b
zip(xs, ys) == [i \in 1..Min(Len(xs), Len(ys)) |-> <<xs[i], ys[i]>>]

\* lines 130-140: [ok, error, fs, image, writes]
tgt_path_of(cache, line, img_root) ==
  IF ~Has(line, "image")
  THEN [ok |-> FALSE, error |-> "KeyError", fs |-> cache, image |-> None, writes |-> <<>>]
  ELSE IF Get(line, "image").t = "list"
  THEN IF ~Has(line, "image_path")
       THEN [ok |-> FALSE, error |-> "KeyError", fs |-> cache, image |-> None,
             writes |-> <<>>]
       ELSE LET m == materialize_all(cache, img_root,
                        zip(Get(line, "image").v, Get(line, "image_path").v))
            IN [ok |-> m.ok, error |-> m.error, fs |-> m.fs,
                image |-> IF m.ok THEN Some(List(m.tgt_path)) ELSE None,
                writes |-> m.writes]
  ELSE IF ~Has(line, "index")
  THEN [ok |-> FALSE, error |-> "KeyError", fs |-> cache, image |-> None, writes |-> <<>>]
  ELSE LET path == join(img_root, Format(Get(line, "index")) \o JPG_EXT)
           one  == materialize(cache, Get(line, "image"), path)
       IN [ok |-> one.ok, error |-> one.error, fs |-> one.fs,
           image |-> IF one.ok THEN Some(Path(path)) ELSE None, writes |-> one.writes]

----------------------------------------------------------------------------
(* build_prompt: text assembly for a multi-choice dataset.                 *)

option_candidate == <<"A", "B", "C", "D", "E">>
\* the characters of a column name, as `{key}` renders it
KeyChars == [A |-> <<65>>, B |-> <<66>>, C |-> <<67>>, D |-> <<68>>, E |-> <<69>>]

\* mc_question with the hint glued to the question without the space
mc_question_glued(line) ==
  LET question == Get(line, "question").v
      hint == IF Has(line, "hint") /\ ~pd_isna(Get(line, "hint"))
              THEN Some(Get(line, "hint").v) ELSE None
  IN IF hint # None THEN hint[1] \o question ELSE question

\* lines 143-147: the question, with the hint before it when there is one
mc_question(line) ==
  LET question == Get(line, "question").v
      hint == IF Has(line, "hint") /\ ~pd_isna(Get(line, "hint"))
              THEN Some(Get(line, "hint").v) ELSE None
  IN IF hint # None THEN hint[1] \o <<32>> \o question ELSE question

\* options built by walking the row's columns instead of option_candidate
options_in_row_order(line) ==
  LET cols == [i \in 1..Len(line) |-> line[i][1]]
      keep == SelectSeq(cols,
                        LAMBDA cand : cand \in {"A", "B", "C", "D", "E"}
                                      /\ ~pd_isna(Get(line, cand)))
  IN [i \in 1..Len(keep) |-> <<keep[i], Get(line, keep[i])>>]

\* lines 149-154: the dict comprehension, as its <<key, item>> pairs in
\* insertion order
options(line) ==
  LET keep == SelectSeq(option_candidate,
                        LAMBDA cand : Has(line, cand) /\ ~pd_isna(Get(line, cand)))
  IN [i \in 1..Len(keep) |-> <<keep[i], Get(line, keep[i])>>]

\* lines 155-157
options_prompt(opts) ==
  OPTIONS_HEADER
    \o Flatten([i \in 1..Len(opts) |->
                  KeyChars[opts[i][1]] \o <<46, 32>> \o Format(opts[i][2]) \o <<10>>])

\* line 158
mc_prompt(line) == mc_question(line) \o <<32>> \o options_prompt(options(line))

\* mc_text choosing the instruction from the question alone
mc_text_by_question(line) ==
  LET prompt == mc_prompt(line)
  IN IF ~cn_string(Get(line, "question").v)
     THEN prompt \o <<10>> \o EN_INSTRUCTION
     ELSE prompt \o <<10>> \o CN_INSTRUCTION

\* lines 160-164
mc_text(line) ==
  LET prompt == mc_prompt(line)
  IN IF ~cn_string(prompt)
     THEN prompt \o <<10>> \o EN_INSTRUCTION
     ELSE prompt \o <<10>> \o CN_INSTRUCTION

\* lines 142-166: [ok, error, text]; line['question'] raises on a row
\* without the column
prompt_of(line, dataset) ==
  IF ~Has(line, "question")
  THEN [ok |-> FALSE, error |-> "KeyError", text |-> <<>>]
  ELSE IF dataset # None /\ DATASET_TYPE(dataset[1]) = "multi-choice"
  THEN [ok |-> TRUE, error |-> "", text |-> mc_text(line)]
  ELSE [ok |-> TRUE, error |-> "", text |-> Get(line, "question").v]

\* build_prompt_result creating images/ before the dataset is looked up
build_prompt_mkdir_first(cache, line, dataset) ==
  IF ~InRootMap(dataset)
  THEN [ok |-> FALSE, error |-> "KeyError", fs |-> makedirs(cache, <<"images">>),
        image |-> None, text |-> <<>>, writes |-> <<>>]
  ELSE LET img_root == join(<<"images">>, img_root_map[dataset[1]])
           made == makedirs(cache, img_root)
           img  == tgt_path_of(made, line, img_root)
           txt  == prompt_of(line, dataset)
       IN IF ~img.ok
          THEN [ok |-> FALSE, error |-> img.error, fs |-> img.fs, image |-> None,
                text |-> <<>>, writes |-> img.writes]
          ELSE IF ~txt.ok
          THEN [ok |-> FALSE, error |-> txt.error, fs |-> img.fs, image |-> None,
                text |-> <<>>, writes |-> img.writes]
          ELSE [ok |-> TRUE, error |-> "", fs |-> img.fs, image |-> img.image,
                text |-> txt.text, writes |-> img.writes]

\* lines 124-168, as a function of the cache and the arguments:
\* [ok, error, fs, image, text, writes]
build_prompt_result(cache, line, dataset) ==
  IF ~InRootMap(dataset)
  THEN [ok |-> FALSE, error |-> "KeyError", fs |-> cache, image |-> None,
        text |-> <<>>, writes |-> <<>>]
  ELSE LET img_root == join(<<"images">>, img_root_map[dataset[1]])
           made == makedirs(cache, img_root)
           img  == tgt_path_of(made, line, img_root)
           txt  == prompt_of(line, dataset)
       IN IF ~img.ok
          THEN [ok |-> FALSE, error |-> img.error, fs |-> img.fs, image |-> None,
                text |-> <<>>, writes |-> img.writes]
          ELSE IF ~txt.ok
          THEN [ok |-> FALSE, error |-> txt.error, fs |-> img.fs, image |-> None,
                text |-> <<>>, writes |-> img.writes]
          ELSE [ok |-> TRUE, error |-> "", fs |-> img.fs, image |-> img.image,
                text |-> txt.text, writes |-> img.writes]

----------------------------------------------------------------------------
(* Inputs.                                                                 *)

Columns ==
  <<"index", "image", "image_path", "question", "hint", "A", "B", "C", "D", "E">>
Reverse(s) == [i \in 1..Len(s) |-> s[Len(s) + 1 - i]]
ColumnOrders == {Columns, Reverse(Columns)}

\* the row holding, in the given column order, the columns f gives a value
MkRow(order, f) ==
  LET present == SelectSeq(order, LAMBDA c : f[c] # None)
  IN [i \in 1..Len(present) |-> <<present[i], f[present[i]][1]>>]

\* a column is absent, holds a missing value, or holds x
Cell(x) == {None, Some(NaN), Some(x)}

Datasets ==
  {None, Some("MMBench_DEV_EN"), Some("MMBench_TEST_EN"), Some("MME"),
   Some("Unknown")}

\* rows varying the text columns, with one decodable image
TextRows ==
  { MkRow(ord, [index |-> Some(PyInt(1)), image |-> Some(B64("Y2F0")),
               image_path |-> None, question |-> Some(PyStr(q)), hint |-> h,
               A |-> a, B |-> b, C |-> c, D |-> d, E |-> e]) :
      ord \in ColumnOrders, q \in {Q_SKY, Q_CN}, h \in Cell(PyStr(HINT_EN)),
      a \in Cell(PyStr(TXT_BLUE)), b \in Cell(PyStr(TXT_GREEN)),
      c \in Cell(PyStr(TXT_RED_CN)), d \in Cell(PyInt(4)), e \in Cell(PyStr(TXT_GREY)) }

EmptyCache == [dirs |-> {}, files |-> <<>>]

----------------------------------------------------------------------------
(* State machine.                                                          *)

NoObj == [status |-> "none"]
NoHist == [before |-> EmptyCache, repeat |-> FALSE, prev |-> <<>>]
Pending == [ok |-> FALSE, error |-> "pending", image |-> None, text |-> <<>>,
            writes |-> <<>>]

\* build_prompt(line, dataset), start to return or raise
build_prompt(line, dataset) ==
  LET r == build_prompt_result(fs, line, dataset)
      c == [op |-> "build_prompt", line |-> line, dataset |-> dataset]
      again == ret.error # "pending" /\ call = c
  IN /\ call' = c
     /\ ret' = [ok |-> r.ok, error |-> r.error, image |-> r.image, text |-> r.text,
                writes |-> r.writes]
     /\ fs' = r.fs
     /\ hist' = [before |-> fs, repeat |-> again,
                 prev |-> IF again THEN <<ret>> ELSE <<>>]
     /\ UNCHANGED <<obj, procs>>

\* build_prompt as a function of its arguments: every text row, every dataset
InitPrompt ==
  /\ obj = NoObj
  /\ fs = EmptyCache
  /\ \E line \in TextRows, dataset \in Datasets :
       call = [op |-> "build_prompt", line |-> line, dataset |-> dataset]
  /\ ret = Pending
  /\ procs = <<>>
  /\ hist = NoHist

PromptCall == ret = Pending /\ build_prompt(call.line, call.dataset)

NextPrompt == PromptCall

SpecPrompt == InitPrompt /\ [][NextPrompt]_vars


----------------------------------------------------------------------------
(* The image cache across successive build_prompt calls.                   *)

\* longest `image` list of a row
MaxImgs == 2

\* f"{i}.jpg"
JpgName(i) == DecStr(i) \o JPG_EXT

SeqsUpTo(S, n) == UNION {[1..k -> S] : k \in 1..n}

TextCells ==
  [question |-> Some(PyStr(Q_SKY)), hint |-> None, A |-> Some(PyStr(TXT_BLUE)),
   B |-> Some(PyStr(TXT_GREEN)), C |-> None, D |-> None, E |-> None]

\* rows with a single image: each payload, and each required column missing
SingleRows ==
  { MkRow(Columns, [index |-> Some(PyInt(1)), image |-> Some(B64(p)),
                    image_path |-> None] @@ TextCells) : p \in {"Y2F0", "ZG9n", "!!"} }
  \cup { MkRow(Columns, [index |-> None, image |-> Some(B64("Y2F0")),
                         image_path |-> None] @@ TextCells),
         MkRow(Columns, [index |-> Some(PyInt(1)), image |-> None,
                         image_path |-> None] @@ TextCells),
         MkRow(Columns, [index |-> Some(PyInt(1)), image |-> Some(B64("Y2F0")),
                         image_path |-> None] @@ [TextCells EXCEPT !.question = None]) }

\* the file names listed with a list of n images: one per image, the same
\* name for all, or one name too few
PathLists(n) ==
  { [i \in 1..n |-> PyStr(JpgName(i))], [i \in 1..n |-> PyStr(NAME_A)],
    [i \in 1..(n - 1) |-> PyStr(JpgName(i))] }

\* rows with a list of images, and one without the image_path column
ListRows ==
  UNION { { MkRow(Columns, [index |-> Some(PyInt(1)),
                            image |-> Some(List([i \in DOMAIN s |-> B64(s[i])])),
                            image_path |-> Some(List(names))] @@ TextCells) :
              names \in PathLists(Len(s)) } :
          s \in SeqsUpTo({"Y2F0", "!!"}, MaxImgs) }
  \cup { MkRow(Columns, [index |-> Some(PyInt(1)),
                         image |-> Some(List(<<B64("Y2F0")>>)),
                         image_path |-> None] @@ TextCells) }

CacheRows == SingleRows \cup ListRows
CacheDatasets == {None, Some("MMBench_DEV_EN"), Some("Unknown")}

\* caches an earlier run can have left: nothing, a file cut short, an image
InitialCaches ==
  LET p == <<"images", "MMBench", JpgName(1)>>
      d == {<<"images">>, <<"images", "MMBench">>}
  IN { EmptyCache,
       [dirs |-> d, files |-> (p :> "corrupt")],
       [dirs |-> d, files |-> (p :> "dog")] }

Init ==
  /\ obj = NoObj
  /\ fs \in InitialCaches
  /\ call = [op |-> "none", line |-> <<>>, dataset |-> None]
  /\ ret = Pending
  /\ procs = <<>>
  /\ hist = NoHist

CacheCall == \E line \in CacheRows, dataset \in CacheDatasets : build_prompt(line, dataset)

Next == CacheCall

Spec == Init /\ [][Next]_vars

----------------------------------------------------------------------------
(* __init__: the constructor as a function of its arguments and of what    *)
(* it finds on disk.                                                       *)
(*   env  = [xtuner, location, bundle, pad_token_id]: whether xtuner       *)
(*          imports, where llava_path resolves, the names os.listdir finds *)
(*          in the bundle, the pad token id of the tokenizer that loads    *)
(*   args = [llm_path, visual_encoder_path, prompt_template, kwargs]       *)

\* xtuner.utils.PROMPT_TEMPLATE: name -> INSTRUCTION, as the text before and
\* after its {input} field
PROMPT_TEMPLATE ==
  [internlm_chat |-> [INSTRUCTION |-> <<TPL_INTERNLM_PRE, TPL_INTERNLM_POST>>],
   vicuna        |-> [INSTRUCTION |-> <<TPL_VICUNA_PRE, TPL_VICUNA_POST>>],
   llama2_chat   |-> [INSTRUCTION |-> <<TPL_LLAMA2_PRE, TPL_LLAMA2_POST>>]]

\* tokenizer.eos_token_id of the sample language model
EosTokenId == 2

\* lines 39-45: where the bundle is read from
resolve(location) ==
  IF location = "dir" THEN <<"llava">>
  ELSE IF location = "cached" THEN <<"cache", "llava">>
  ELSE <<"hub", "llava">>

\* select_path taking the explicit path when the bundle has the sub-model too
select_path_prefers_explicit(llava_path, names, sub, explicit) ==
  IF explicit # None THEN [ok |-> TRUE, path |-> explicit[1]]
  ELSE IF sub \in names THEN [ok |-> TRUE, path |-> join(llava_path, sub)]
  ELSE [ok |-> FALSE, path |-> <<>>]

\* lines 48-54 (sub = "llm") and 66-73 (sub = "visual_encoder")
select_path(llava_path, names, sub, explicit) ==
  IF sub \in names
  THEN IF explicit # None THEN [ok |-> FALSE, path |-> <<>>]
       ELSE [ok |-> TRUE, path |-> join(llava_path, sub)]
  ELSE IF explicit = None THEN [ok |-> FALSE, path |-> <<>>]
       ELSE [ok |-> TRUE, path |-> explicit[1]]

\* lines 112-117
kwargs_default(pad_token_id) ==
  [max_new_tokens |-> 100, do_sample |-> FALSE, eos_token_id |-> EosTokenId,
   pad_token_id |-> IF pad_token_id # None THEN pad_token_id[1] ELSE EosTokenId]

\* an update in which the keys already set keep their value
update_keeping(d, kwargs) ==
  [k \in DOMAIN d \cup DOMAIN kwargs |-> IF k \in DOMAIN d THEN d[k] ELSE kwargs[k]]

\* dict.update, line 119
update(d, kwargs) ==
  [k \in DOMAIN d \cup DOMAIN kwargs |-> IF k \in DOMAIN kwargs THEN kwargs[k] ELSE d[k]]

\* lines 112-122
gen_config_of(pad_token_id, kwargs) ==
  IF Cardinality(DOMAIN kwargs) > 0
  THEN update(kwargs_default(pad_token_id), kwargs)
  ELSE kwargs_default(pad_token_id)

Stopped(status, loads) ==
  [status |-> status, loads |-> loads, prompt_template |-> None, gen_config |-> <<>>]

\* lines 29-122: the instance, or how construction ended; loads lists the
\* from_pretrained calls made, in order, as <<what, path>>
construct(env, args) ==
  IF ~env.xtuner THEN Stopped("exit", <<>>)
  ELSE
  LET llava_path == resolve(env.location)
      names == env.bundle
      llm == select_path(llava_path, names, "llm", args.llm_path)
  IN IF ~llm.ok THEN Stopped("AssertionError", <<>>)
     ELSE
     LET loads1 == << <<"llm", llm.path>>, <<"tokenizer", llm.path>> >>
         ve == select_path(llava_path, names, "visual_encoder", args.visual_encoder_path)
     IN IF ~ve.ok THEN Stopped("AssertionError", loads1)
        ELSE
        LET loads2 == loads1 \o << <<"visual_encoder", ve.path>>,
                                   <<"image_processor", ve.path>> >>
            loads3 == loads2
              \o (IF "llm_adapter" \in names
                  THEN << <<"llm_adapter", join(llava_path, "llm_adapter")>> >> ELSE <<>>)
              \o (IF "visual_encoder_adapter" \in names
                  THEN << <<"visual_encoder_adapter",
                            join(llava_path, "visual_encoder_adapter")>> >> ELSE <<>>)
        IN IF "projector" \notin names THEN Stopped("OSError", loads3)
           ELSE
           LET loads4 == Append(loads3, <<"projector", join(llava_path, "projector")>>)
           IN IF /\ args.prompt_template # None
                 /\ args.prompt_template[1] \notin DOMAIN PROMPT_TEMPLATE
              THEN Stopped("KeyError", loads4)
              ELSE [status |-> "ok", loads |-> loads4,
                    prompt_template |->
                      IF args.prompt_template # None
                      THEN Some(PROMPT_TEMPLATE[args.prompt_template[1]]) ELSE None,
                    gen_config |-> gen_config_of(env.pad_token_id, args.kwargs)]

BundleNames ==
  {"llm", "visual_encoder", "llm_adapter", "visual_encoder_adapter", "projector"}

\* the generation options a caller overrides
Overrides == [max_new_tokens |-> 512, do_sample |-> TRUE, pad_token_id |-> 7, num_beams |-> 3]
KwargsSets == { [k \in S |-> Overrides[k]] : S \in SUBSET DOMAIN Overrides }

Envs ==
  [xtuner : BOOLEAN, location : {"dir", "cached", "hub"}, bundle : SUBSET BundleNames,
   pad_token_id : {None, Some(0)}]
Args ==
  [llm_path : {None, Some(<<"models", "vicuna">>)},
   visual_encoder_path : {None, Some(<<"models", "clip">>)},
   prompt_template : {None, Some("internlm_chat"), Some("no_such_template")},
   kwargs : KwargsSets]

\* LLaVA_XTuner(...), start to return, raise or exit
Construct ==
  /\ call.op = "__init__"
  /\ obj = NoObj
  /\ obj' = construct(call.env, call.args)
  /\ UNCHANGED <<fs, call, ret, procs, hist>>

\* the constructor as a function of its arguments: every environment, every
\* argument combination
InitInit ==
  /\ obj = NoObj
  /\ fs = EmptyCache
  /\ \E env \in Envs, args \in Args : call = [op |-> "__init__", env |-> env, args |-> args]
  /\ ret = Pending
  /\ procs = <<>>
  /\ hist = NoHist

NextInit == Construct

SpecInit == InitInit /\ [][NextInit]_vars

----------------------------------------------------------------------------
(* generate.                                                               *)

\* xtuner.utils.IMAGE_TOKEN_INDEX
IMAGE_TOKEN_INDEX == -200
\* the id the tokenizer puts first when it adds special tokens
BosTokenId == 1

\* s holds t at position i
At(s, t, i) == i + Len(t) - 1 <= Len(s) /\ SubSeq(s, i, i + Len(t) - 1) = t

\* str.find: the first position of t in s, 0 when there is none
Find(s, t) ==
  IF \E i \in 1..Len(s) : At(s, t, i)
  THEN CHOOSE i \in 1..Len(s) : At(s, t, i) /\ \A j \in 1..(i - 1) : ~At(s, t, j)
  ELSE 0

\* s.split(t, 1): cut at the first occurrence only
split_once(s, t) ==
  IF Find(s, t) = 0 THEN <<s>>
  ELSE <<SubSeq(s, 1, Find(s, t) - 1), SubSeq(s, Find(s, t) + Len(t), Len(s))>>

\* s.split(t): the chunks between the occurrences of t, scanned from the left
RECURSIVE split(_, _)
split(s, t) ==
  IF Find(s, t) = 0 THEN <<s>>
  ELSE <<SubSeq(s, 1, Find(s, t) - 1)>>
         \o split(SubSeq(s, Find(s, t) + Len(t), Len(s)), t)

\* INSTRUCTION.format(input=inputs)
format(instruction, inputs) == instruction[1] \o inputs \o instruction[2]

\* lines 185-188
compose(self, prompt) ==
  LET inputs == DEFAULT_IMAGE_TOKEN \o <<10>> \o prompt
  IN IF self.prompt_template # None
     THEN format(self.prompt_template[1].INSTRUCTION, inputs)
     ELSE inputs

\* lines 190-196; the tokenizer is stood for by one id per character, with
\* the special token first where it adds one
chunk_encode(inputs) ==
  LET chunks == split(inputs, DEFAULT_IMAGE_TOKEN)
  IN [idx \in 1..Len(chunks) |->
        IF idx = 1 THEN <<BosTokenId>> \o chunks[idx] ELSE chunks[idx]]

\* lines 198-202
splice(encoded) ==
  Flatten([idx \in 1..Len(encoded) |->
             IF idx # Len(encoded) THEN Append(encoded[idx], IMAGE_TOKEN_INDEX)
             ELSE encoded[idx]])

\* lines 170-215: [ok, error, ids]; Image.open raises on a list of paths
\* and on a file that is missing or is no image
generate_result(self, cache, image_path, prompt) ==
  IF image_path.t # "path" \/ ~read_ok(cache, image_path.v)
  THEN [ok |-> FALSE, error |-> "ImageError", ids |-> <<>>]
  ELSE LET encoded == chunk_encode(compose(self, prompt))
       IN IF Len(encoded) # 2
          THEN [ok |-> FALSE, error |-> "AssertionError", ids |-> <<>>]
          ELSE [ok |-> TRUE, error |-> "", ids |-> splice(encoded)]

\* generate(image_path, prompt), start to return or raise
generate(image_path, prompt) ==
  /\ obj.status = "ok"
  /\ call' = [op |-> "generate", image_path |-> image_path, prompt |-> prompt]
  /\ ret' = generate_result(obj, fs, image_path, prompt)
  /\ UNCHANGED <<obj, fs, procs, hist>>

\* most pieces a caller's prompt is made of
MaxPieces == 3
\* the placeholder, its two halves, and plain text
Pieces == {DEFAULT_IMAGE_TOKEN, PIECE_IM, PIECE_AGE, PIECE_WORD}
Prompts == {Flatten(s) : s \in {<<>>} \cup SeqsUpTo(Pieces, MaxPieces)} \cup {Q_SKY}

CachedImage == <<"images", "MMBench", JpgName(1)>>
ImagePaths ==
  {Path(CachedImage), Path(<<"images", "MMBench", JpgName(2)>>), List(<<Path(CachedImage)>>)}

\* the instances construction yields for a full bundle, one per template
Instances ==
  { construct([xtuner |-> TRUE, location |-> "dir", bundle |-> BundleNames,
               pad_token_id |-> None],
              [llm_path |-> None, visual_encoder_path |-> None, prompt_template |-> t,
               kwargs |-> <<>>]) :
      t \in {None} \cup {Some(n) : n \in DOMAIN PROMPT_TEMPLATE} }

\* after construction, with one image in the cache
InitGen ==
  /\ obj \in Instances
  /\ fs = [dirs |-> {<<"images">>, <<"images", "MMBench">>},
           files |-> (CachedImage :> "cat")]
  /\ call = [op |-> "none"]
  /\ ret = Pending
  /\ procs = <<>>
  /\ hist = NoHist

GenerateCall == \E image_path \in ImagePaths, prompt \in Prompts : generate(image_path, prompt)

NextGen == GenerateCall

SpecGen == InitGen /\ [][NextGen]_vars

----------------------------------------------------------------------------
(* build_prompt called from several processes that share the image cache.  *)
(* A call is taken apart at its reads and writes of the cache: the         *)
(* read_ok check, and the two moments of the save inside                   *)
(* decode_base64_to_image_file, which opens the file for writing (leaving  *)
(* it empty) and then writes the image.                                    *)

\* processes calling build_prompt at the same time
NumCallers == 2
Callers == 1..NumCallers
\* the count of writes of one file is kept up to this number
WriteCap == 2

\* rows aimed at the same file images/MMBench/1.jpg: a single image, a list of
\* one image of that name, and a payload that is no image
RaceRows ==
  { MkRow(Columns, [index |-> Some(PyInt(1)), image |-> Some(B64(p)),
                    image_path |-> None] @@ TextCells) : p \in {"Y2F0", "!!"} }
  \cup { MkRow(Columns, [index |-> Some(PyInt(1)),
                         image |-> Some(List(<<B64("ZG9n")>>)),
                         image_path |-> Some(List(<<PyStr(JpgName(1))>>))]
                        @@ TextCells) }
RaceDataset == Some("MMBench_DEV_EN")

Idle == [pc |-> "idle", line |-> <<>>, items |-> <<>>, tgt |-> <<>>, late |-> {}]

\* the <<img, path>> pairs lines 130-140 go through, in order
items_of(line, img_root) ==
  IF Get(line, "image").t = "list"
  THEN LET z == zip(Get(line, "image").v, Get(line, "image_path").v)
       IN [i \in 1..Len(z) |-> <<z[i][1], join(img_root, Format(z[i][2]))>>]
  ELSE << <<Get(line, "image"), join(img_root, Format(Get(line, "index")) \o JPG_EXT)>> >>

\* a process has passed the check for path and has not finished writing it
Writing(ps, path) ==
  \E p \in Callers : ps[p].pc \in {"decode", "save"} /\ ps[p].items[1][2] = path

\* the file is readable and no process is about to write it or writing it
Settled(cache, ps, path) == read_ok(cache, path) /\ ~Writing(ps, path)

\* what the history keeps of a step: per file the writes completed (up to
\* WriteCap), and the files that have been settled, with what they held then
Observe ==
  LET done == {path \in DOMAIN fs'.files :
                 \E p \in Callers : /\ procs[p].pc = "save"
                                     /\ procs'[p].pc # "save"
                                     /\ procs[p].items[1][2] = path}
      count(path) == IF path \in DOMAIN hist.writes THEN hist.writes[path] ELSE 0
      now == {path \in DOMAIN fs'.files : Settled(fs', procs', path)}
  IN hist' = [writes |-> [path \in DOMAIN fs'.files |->
                            IF path \in done /\ count(path) < WriteCap
                            THEN count(path) + 1 ELSE count(path)],
              settled |-> [path \in now \cup DOMAIN hist.settled |->
                             IF path \in DOMAIN hist.settled THEN hist.settled[path]
                             ELSE fs'.files[path]]]

\* the paths that hold, or have held, a readable image
Seen == {p \in DOMAIN hist.writes : hist.writes[p] > 0}

\* lines 124-130: the call begins; the directory is made
Start(p) ==
  /\ procs[p].pc = "idle"
  /\ \E line \in RaceRows :
       procs' = [procs EXCEPT ![p] =
                   [pc |-> "check", line |-> line,
                    items |-> items_of(line, join(<<"images">>, img_root_map[RaceDataset[1]])),
                    tgt |-> <<>>, late |-> Seen]]
  /\ fs' = makedirs(fs, join(<<"images">>, img_root_map[RaceDataset[1]]))
  /\ UNCHANGED <<obj, call, ret>>
  /\ Observe

\* after an image is dealt with: on to the next, or to the text
Advance(q) ==
  [q EXCEPT !.pc = IF Len(q.items) > 1 THEN "check" ELSE "text",
            !.tgt = Append(q.tgt, q.items[1][2]),
            !.items = Tail(q.items)]

\* lines 134 and 139: the guard
Check(p) ==
  /\ procs[p].pc = "check"
  /\ procs' = [procs EXCEPT ![p] =
                 IF needs_write(fs, procs[p].items[1][2])
                 THEN [procs[p] EXCEPT !.pc = "decode"]
                 ELSE Advance(procs[p])]
  /\ UNCHANGED <<obj, fs, call, ret>>
  /\ Observe

\* lines 135 and 140, first half: the payload is decoded, which raises and
\* ends the call if it is no image, and the file is opened for writing
Open(p) ==
  /\ procs[p].pc = "decode"
  /\ LET img == procs[p].items[1][1]
         path == procs[p].items[1][2]
     IN IF img.v \in DOMAIN B64Images
        THEN /\ fs' = WriteFile(fs, path, "empty")
             /\ procs' = [procs EXCEPT ![p].pc = "save"]
             /\ UNCHANGED ret
        ELSE /\ fs' = fs
             /\ procs' = [procs EXCEPT ![p] = Idle]
             /\ ret' = [ok |-> FALSE, error |-> "DecodeError", image |-> None,
                        text |-> <<>>, writes |-> <<>>]
  /\ UNCHANGED <<obj, call>>
  /\ Observe

\* lines 135 and 140, second half: the image is written and the file closed
Save(p) ==
  /\ procs[p].pc = "save"
  /\ LET img == procs[p].items[1][1]
         path == procs[p].items[1][2]
     IN fs' = WriteFile(fs, path, B64Images[img.v])
  /\ procs' = [procs EXCEPT ![p] = Advance(procs[p])]
  /\ UNCHANGED <<obj, call, ret>>
  /\ Observe

\* lines 142-168: the text is assembled and the record returned
Return(p) ==
  /\ procs[p].pc = "text"
  /\ LET line == procs[p].line
         txt == prompt_of(line, RaceDataset)
     IN ret' = [ok |-> TRUE, error |-> "",
                image |-> IF Get(line, "image").t = "list"
                          THEN Some(List(procs[p].tgt)) ELSE Some(Path(procs[p].tgt[1])),
                text |-> txt.text, writes |-> <<>>]
  /\ procs' = [procs EXCEPT ![p] = Idle]
  /\ UNCHANGED <<obj, fs, call>>
  /\ Observe

InitRace ==
  /\ obj = NoObj
  /\ fs = EmptyCache
  /\ call = [op |-> "build_prompt"]
  /\ ret = Pending
  /\ procs = [p \in Callers |-> Idle]
  /\ hist = [writes |-> <<>>, settled |-> <<>>]

NextRace == \E p \in Callers : Start(p) \/ Check(p) \/ Open(p) \/ Save(p) \/ Return(p)

SpecRace == InitRace /\ [][NextRace]_vars

----------------------------------------------------------------------------
(* Statements about build_prompt's text.                                   *)

\* the last build_prompt call returned (did not raise)
Returned == call.op = "build_prompt" /\ ret.ok
\* ... and its dataset is a multi-choice one
ReturnedMC ==
  Returned /\ call.dataset # None /\ DATASET_TYPE(call.dataset[1]) = "multi-choice"

\* the segments of s between occurrences of character ch
RECURSIVE SplitOn(_, _)
SplitOn(s, ch) ==
  IF \A i \in 1..Len(s) : s[i] # ch THEN <<s>>
  ELSE LET k == CHOOSE i \in 1..Len(s) : s[i] = ch /\ \A j \in 1..(i - 1) : s[j] # ch
       IN <<SubSeq(s, 1, k - 1)>> \o SplitOn(SubSeq(s, k + 1, Len(s)), ch)

Letters == {"A", "B", "C", "D", "E"}
LetterRank == [A |-> 1, B |-> 2, C |-> 3, D |-> 4, E |-> 5]
LetterChar == [A |-> 65, B |-> 66, C |-> 67, D |-> 68, E |-> 69]
\* the text each option column holds in the sample rows, as it is printed
SampleOptionText ==
  [A |-> TXT_BLUE, B |-> TXT_GREEN, C |-> TXT_RED_CN, D |-> <<52>>, E |-> TXT_GREY]

\* the letters whose column is in the row with a value that is not missing
PresentLetters(line) ==
  {k \in Letters : \E i \in 1..Len(line) : line[i][1] = k /\ line[i][2].t # "nan"}
\* the i-th present letter, counting in the order A, B, C, D, E
NthLetter(line, i) ==
  CHOOSE k \in PresentLetters(line) :
    Cardinality({j \in PresentLetters(line) : LetterRank[j] < LetterRank[k]}) = i - 1
ExpectedLine(k) == <<LetterChar[k], 46, 32>> \o SampleOptionText[k]

\* C2: on a multi-choice dataset the text holds, between the header line and
\* the blank line before the instruction, exactly one line "{letter}. {text}"
\* per letter of A..E whose column is present and not missing, in the order
\* A, B, C, D, E whatever the order of the row's columns, and no other line.
C2_OptionLines ==
  ReturnedMC =>
    LET n == Cardinality(PresentLetters(call.line))
        segs == SplitOn(ret.text, 10)
    IN /\ Len(segs) = n + 3
       /\ \A i \in 1..n : segs[i + 1] = ExpectedLine(NthLetter(call.line, i))
       /\ segs[n + 2] = <<>>

\* a row with columns in reverse order, A, B, C present and D, E not, returned
C2_Witness ==
  /\ ReturnedMC
  /\ call.line[1][1] = "E"
  /\ PresentLetters(call.line) = {"A", "B", "C"}
  /\ SplitOn(ret.text, 10)[2] = ExpectedLine("A")
  /\ SplitOn(ret.text, 10)[4] = ExpectedLine("C")

HintPresent(line) ==
  \E i \in 1..Len(line) : line[i][1] = "hint" /\ line[i][2].t # "nan"
ColumnText(line, c) ==
  (CHOOSE cell \in {line[i] : i \in 1..Len(line)} : cell[1] = c)[2].v
OptionLineOrNothing(line, k) ==
  IF k \in PresentLetters(line) THEN ExpectedLine(k) \o <<10>> ELSE <<>>
\* hint, question, header and option lines, as the claim spells them
Assembled(line) ==
  (IF HintPresent(line) THEN ColumnText(line, "hint") \o <<32>> ELSE <<>>)
    \o ColumnText(line, "question") \o <<32>> \o OPTIONS_HEADER
    \o OptionLineOrNothing(line, "A") \o OptionLineOrNothing(line, "B")
    \o OptionLineOrNothing(line, "C") \o OptionLineOrNothing(line, "D")
    \o OptionLineOrNothing(line, "E")

ColumnsOf(line) == {line[i][1] : i \in 1..Len(line)}
IsSkyExample(line) ==
  /\ ColumnsOf(line) = {"index", "image", "question", "A", "B"}
  /\ ColumnText(line, "question") = Q_SKY
  /\ ColumnText(line, "A") = TXT_BLUE
  /\ ColumnText(line, "B") = TXT_GREEN

\* C3: on a multi-choice dataset the returned text is (hint + ' ' when the
\* hint is present and not missing) + question + ' ' + header + the option
\* lines + '\n' + one of the two instructions; the sky example yields the
\* text the spec quotes.
C3_TextShape ==
  ReturnedMC =>
    /\ \/ ret.text = Assembled(call.line) \o <<10>> \o EN_INSTRUCTION
       \/ ret.text = Assembled(call.line) \o <<10>> \o CN_INSTRUCTION
    /\ IsSkyExample(call.line) => ret.text = SKY_EXAMPLE_TEXT

C3_Witness ==
  /\ ReturnedMC
  /\ IsSkyExample(call.line)
  /\ ret.text = SKY_EXAMPLE_TEXT

HasCJK(s) == {i \in 1..Len(s) : s[i] \in 19968..40959} # {}

\* C4: on a multi-choice dataset the Chinese instruction is appended iff the
\* assembled text (hint, question, header and option lines) holds a CJK
\* ideograph, the English one otherwise, and exactly one of them.
C4_InstructionLanguage ==
  ReturnedMC =>
    LET body == Assembled(call.line)
    IN /\ HasCJK(body) => ret.text = body \o <<10>> \o CN_INSTRUCTION
       /\ ~HasCJK(body) => ret.text = body \o <<10>> \o EN_INSTRUCTION

\* an English question whose only CJK text is option C: Chinese instruction
C4_Witness ==
  /\ ReturnedMC
  /\ ColumnText(call.line, "question") = Q_SKY
  /\ "C" \in PresentLetters(call.line)
  /\ SubSeq(ret.text, Len(ret.text) - Len(CN_INSTRUCTION) + 1, Len(ret.text))
       = CN_INSTRUCTION

\* C8: for a dataset that is not multi-choice, and when no dataset is given,
\* build_prompt returns a record whose text is the row's raw question.
C8_RawQuestion ==
  (/\ call.op = "build_prompt"
   /\ ret # Pending
   /\ \/ call.dataset = None
      \/ /\ call.dataset[1] \in DOMAIN img_root_map
         /\ DATASET_TYPE(call.dataset[1]) # "multi-choice")
    => ret.ok /\ ret.text = ColumnText(call.line, "question")

\* the part of C8 that the code does satisfy: a named dataset of another type
C8_NamedDataset ==
  (/\ Returned
   /\ call.dataset # None
   /\ DATASET_TYPE(call.dataset[1]) # "multi-choice")
    => ret.text = ColumnText(call.line, "question")


----------------------------------------------------------------------------
(* Statements about the image cache.                                       *)

\* the file at path p holds an image that opens
Readable(cache, p) == p \in DOMAIN cache.files /\ cache.files[p] \in {"cat", "dog"}
Range(s) == {s[i] : i \in 1..Len(s)}
Called == call.op = "build_prompt" /\ ret # Pending
Failed == Called /\ ~ret.ok

\* C5: a build_prompt call that repeats the call before it (same row, same
\* dataset) returns the same image path, or the same list of paths, and
\* writes nothing to the cache; and no call writes a target that existed
\* and was readable when the call began, nor writes a target twice.
C5_SecondCallWritesNothing ==
  Called =>
    /\ hist.repeat =>
         /\ ret.writes = <<>>
         /\ fs = hist.before
         /\ ret.ok = hist.prev[1].ok
         /\ ret.image = hist.prev[1].image
    /\ \A i \in 1..Len(ret.writes) :
         /\ ~Readable(hist.before, ret.writes[i])
         /\ \A j \in 1..Len(ret.writes) : ret.writes[i] = ret.writes[j] => i = j

\* a repeated call returning a list of two paths that the call before it
\* had to write
C5_Witness ==
  /\ Called /\ hist.repeat /\ ret.ok
  /\ ret.image[1].t = "list" /\ Len(ret.image[1].v) = 2
  /\ Len(hist.prev[1].writes) = 2

\* a repeated call with a single image that the call before it wrote over a
\* file cut short
C5_WitnessSingle ==
  /\ Called /\ hist.repeat /\ ret.ok
  /\ ret.image[1].t = "path"
  /\ Len(hist.prev[1].writes) = 1

\* C9 as claimed: whenever build_prompt fails, the cache is exactly as it
\* was before the call.
C9_AllOrNothing == Failed => fs = hist.before

CallRoot == <<"images", img_root_map[call.dataset[1]]>>
\* the targets of the row's images that decode
DecodableTargets ==
  LET cell(c) == (CHOOSE x \in Range(call.line) : x[1] = c)[2]
      has(c) == \E x \in Range(call.line) : x[1] = c
  IN IF ~has("image") THEN {}
     ELSE IF cell("image").t = "list"
     THEN IF ~has("image_path") THEN {}
          ELSE { <<Append(CallRoot, cell("image_path").v[i].v), cell("image").v[i].v>> :
                   i \in { k \in 1..Len(cell("image").v) :
                             /\ k <= Len(cell("image_path").v)
                             /\ cell("image").v[k].v \in {"Y2F0", "ZG9n"} } }
     ELSE IF ~has("index") \/ cell("image").v \notin {"Y2F0", "ZG9n"} THEN {}
     ELSE { <<Append(CallRoot, JpgName(cell("index").v)), cell("image").v>> }
ImageOf == [Y2F0 |-> "cat", ZG9n |-> "dog"]

\* C9 as the code has it: a call that fails at the dataset lookup leaves the
\* cache as it was; a call that fails later leaves the dataset's directory
\* created and the files it wrote before the failure in place. A failed call
\* removes nothing, changes no file that was readable, and every file it
\* changed is the target of an image of the row that decodes, holding it.
C9_FailureEffects ==
  Failed =>
    /\ ~InRootMap(call.dataset) => fs = hist.before
    /\ InRootMap(call.dataset) =>
         /\ fs.dirs = hist.before.dirs \cup {<<"images">>, CallRoot}
         /\ DOMAIN hist.before.files \subseteq DOMAIN fs.files
         /\ \A p \in DOMAIN hist.before.files :
              Readable(hist.before, p) => fs.files[p] = hist.before.files[p]
         /\ \A p \in DOMAIN fs.files :
              (p \notin DOMAIN hist.before.files \/ fs.files[p] # hist.before.files[p])
                => /\ p \in Range(ret.writes)
                   /\ \E tp \in DecodableTargets : tp[1] = p /\ fs.files[p] = ImageOf[tp[2]]

\* a failed call on a list of two images: the first was written, the second
\* does not decode
C9_Witness ==
  /\ Failed /\ ret.error = "DecodeError"
  /\ Len(ret.writes) = 1
  /\ fs # hist.before


----------------------------------------------------------------------------
(* Statements about construction.                                          *)

Constructing == call.op = "__init__" /\ obj # NoObj /\ call.env.xtuner
LoadsOf(what) == {obj.loads[i][2] : i \in {j \in 1..Len(obj.loads) : obj.loads[j][1] = what}}
Bundled(sub) == sub \in call.env.bundle
BundleDir ==
  IF call.env.location = "dir" THEN <<"llava">>
  ELSE IF call.env.location = "cached" THEN <<"cache", "llava">> ELSE <<"hub", "llava">>

\* C1: construction is rejected by an assertion, before any model is
\* loaded, when the bundle has `llm` and llm_path is given and when it lacks
\* `llm` and llm_path is None; otherwise the language model is loaded from
\* <bundle>/llm resp. the explicit path. Once the language model is loaded,
\* the same rule decides visual_encoder and visual_encoder_path.
C1_ExactlyOneSource ==
  Constructing =>
    /\ (Bundled("llm") <=> call.args.llm_path # None)
         => obj.status = "AssertionError" /\ obj.loads = <<>>
    /\ (Bundled("llm") /\ call.args.llm_path = None)
         => LoadsOf("llm") = {BundleDir \o <<"llm">>}
    /\ (~Bundled("llm") /\ call.args.llm_path # None)
         => LoadsOf("llm") = {call.args.llm_path[1]}
    /\ LoadsOf("llm") # {} =>
         /\ (Bundled("visual_encoder") <=> call.args.visual_encoder_path # None)
              => obj.status = "AssertionError" /\ LoadsOf("visual_encoder") = {}
         /\ (Bundled("visual_encoder") /\ call.args.visual_encoder_path = None)
              => LoadsOf("visual_encoder") = {BundleDir \o <<"visual_encoder">>}
         /\ (~Bundled("visual_encoder") /\ call.args.visual_encoder_path # None)
              => LoadsOf("visual_encoder") = {call.args.visual_encoder_path[1]}

\* a bundle with llm/ and no visual_encoder/, the encoder given by path:
\* constructed
C1_Witness ==
  /\ Constructing /\ obj.status = "ok"
  /\ Bundled("llm") /\ ~Bundled("visual_encoder")
  /\ LoadsOf("llm") = {BundleDir \o <<"llm">>}
  /\ LoadsOf("visual_encoder") = {<<"models", "clip">>}

\* a bundle with llm/ and an explicit llm_path: rejected
C1_WitnessRejected ==
  /\ Constructing /\ obj.status = "AssertionError" /\ obj.loads = <<>>
  /\ Bundled("llm") /\ call.args.llm_path # None

DefaultKeys == {"max_new_tokens", "do_sample", "eos_token_id", "pad_token_id"}
DefaultOf(key) ==
  IF key = "max_new_tokens" THEN 100
  ELSE IF key = "do_sample" THEN FALSE
  ELSE IF key = "eos_token_id" THEN 2
  ELSE IF call.env.pad_token_id = <<>> THEN 2 ELSE call.env.pad_token_id[1]

\* C7: the generation configuration of a constructed instance gives every
\* key the caller supplied the caller's value and every other default key
\* its default (max_new_tokens 100, do_sample False, eos = tokenizer eos,
\* pad = tokenizer pad, or eos when that is None); with no overrides it has
\* max_new_tokens = 100 and do_sample = False.
C7_GenConfigOverlay ==
  (Constructing /\ obj.status = "ok") =>
    /\ \A key \in DefaultKeys \cup DOMAIN call.args.kwargs :
         /\ key \in DOMAIN obj.gen_config
         /\ obj.gen_config[key] =
              IF key \in DOMAIN call.args.kwargs THEN call.args.kwargs[key]
              ELSE DefaultOf(key)
    /\ DOMAIN call.args.kwargs = {} =>
         obj.gen_config.max_new_tokens = 100 /\ obj.gen_config.do_sample = FALSE

\* constructed with max_new_tokens overridden alone, the tokenizer without a
\* pad token
C7_Witness ==
  /\ Constructing /\ obj.status = "ok"
  /\ DOMAIN call.args.kwargs = {"max_new_tokens"}
  /\ call.env.pad_token_id = None
  /\ obj.gen_config.max_new_tokens = 512
  /\ obj.gen_config.pad_token_id = 2
  /\ obj.gen_config.do_sample = FALSE


----------------------------------------------------------------------------
(* Statements about generate.                                              *)

Generated == call.op = "generate"
\* the text generate composes: placeholder, newline, prompt, inside the
\* instruction template when the instance has one
ComposedText ==
  LET core == <<60, 105, 109, 97, 103, 101, 62, 10>> \o call.prompt
  IN IF obj.prompt_template = <<>> THEN core
     ELSE obj.prompt_template[1].INSTRUCTION[1] \o core
            \o obj.prompt_template[1].INSTRUCTION[2]
\* how many times "<image>" occurs in s
Occurrences(s) ==
  Cardinality({i \in 1..Len(s) :
                 /\ i + 6 <= Len(s)
                 /\ <<s[i], s[i + 1], s[i + 2], s[i + 3], s[i + 4], s[i + 5], s[i + 6]>>
                      = <<60, 105, 109, 97, 103, 101, 62>>})
ImageOpens ==
  /\ call.image_path.t = "path"
  /\ call.image_path.v \in DOMAIN fs.files
  /\ fs.files[call.image_path.v] \in {"cat", "dog"}

\* C6: generate returns no answer whenever the composed text holds the image
\* placeholder zero times or more than once, failing the assertion whenever
\* it gets as far as the check; with exactly one occurrence the check passes
\* and one image token id is spliced in. This holds for every prompt, those
\* holding the placeholder included.
C6_OnePlaceholder ==
  Generated =>
    /\ Occurrences(ComposedText) # 1 => ~ret.ok
    /\ (Occurrences(ComposedText) # 1 /\ ImageOpens) => ret.error = "AssertionError"
    /\ (Occurrences(ComposedText) = 1 /\ ImageOpens) =>
         /\ ret.ok
         /\ Cardinality({i \in 1..Len(ret.ids) : ret.ids[i] = -200}) = 1

\* a prompt that itself holds the placeholder, under a template: the
\* assertion fails
C6_Witness ==
  /\ Generated /\ ImageOpens
  /\ obj.prompt_template # <<>>
  /\ Occurrences(call.prompt) = 1
  /\ Occurrences(ComposedText) = 2
  /\ ret.error = "AssertionError"

\* a prompt without the placeholder: the check passes
C6_WitnessPass ==
  /\ Generated /\ ImageOpens /\ call.prompt = Q_SKY
  /\ Occurrences(ComposedText) = 1 /\ ret.ok


----------------------------------------------------------------------------
(* Statements about concurrent build_prompt calls.                         *)

PastCheck(p, path) ==
  procs[p].pc \in {"decode", "save"} /\ procs[p].items[1][2] = path

\* C10 as claimed, second half: once a file exists and is readable, no call
\* that begins later writes it. (late holds the files that had been written
\* in full when the call began.)
C10_NoLaterCallWrites ==
  \A p \in DOMAIN procs :
    procs[p].pc = "save" => procs[p].items[1][2] \notin procs[p].late

\* C10 as the code has it: once a file is readable and no call that passed
\* the check before is still about to write it or writing it, the file keeps
\* what it holds and no call, in any interleaving, gets past the check for it.
C10_SettledFilesStay ==
  \A path \in DOMAIN hist.settled :
    /\ path \in DOMAIN fs.files
    /\ fs.files[path] = hist.settled[path]
    /\ \A p \in DOMAIN procs : ~PastCheck(p, path)

\* two calls wrote the same file, which is settled now, and a call that began
\* after that has passed it by without writing
C10_Witness ==
  \E path \in DOMAIN hist.settled :
    /\ hist.writes[path] = 2
    /\ \E p \in DOMAIN procs :
         /\ procs[p].pc = "text"
         /\ path \in procs[p].late
         /\ procs[p].tgt = <<path>>

\* C10, first half: both calls have passed the check for the same file
\* before either has written it
C10_BothPastCheck ==
  \E p, q \in DOMAIN procs, path \in {<<"images", "MMBench", JpgName(1)>>} :
    /\ p # q
    /\ procs[p].pc = "decode" /\ procs[p].items[1][2] = path
    /\ procs[q].pc = "decode" /\ procs[q].items[1][2] = path
    /\ path \notin DOMAIN fs.files

=============================================================================
